---- MODULE Spec2Model ----
(***************************************************************************)
(* Model of sdpp.py: two-way synchronisation of the Paperpile folder       *)
(* (source tree) and the Sony Box folder (mirror tree) through a TinyDB    *)
(* index of {paperpile, box, modtime} documents.                           *)
(*                                                                         *)
(* Paths are sequences of one-character strings, so that to_sony_filename, *)
(* basename, startswith and endswith are computed character by character.  *)
(* The words of the two root constants (Google, Drive, Paperpile, All,      *)
(* Papers, Box, Sync) are written as one element each: they contain no     *)
(* slash, no dot and no forbidden character, and every path is built from  *)
(* the same constants.                                                     *)
(* The file system is keyed by paths relative to the home directory: every *)
(* entry point does os.chdir(home) and strips the home prefix.             *)
(***************************************************************************)
EXTENDS Integers, Sequences, FiniteSets, TLC

VARIABLES fs, db, proc, queue, cache, last, synced, bootDone, nenv

vars == <<fs, db, proc, queue, cache, last, synced, bootDone, nenv>>

----------------------------------------------------------------------------
(* Bounds of the model                                                     *)

MaxFiles == 1     \* files of the source tree when the model starts
MaxEnv   == 1     \* changes the user makes to the file system
MaxQueue == 1     \* events waiting in the observer's queue
MaxStrLen == 3    \* length of the strings given to to_sony_filename alone

(* Modification times (seconds) that occur: 0, the edge of the 10 second   *)
(* window after 0, and two times that are each outside the window of the   *)
(* one before.                                                             *)
Times == {0, 10, 11, 22}

----------------------------------------------------------------------------
(* Strings                                                                 *)

HomeDir == <<"/","h","/">>

PaperpileRel == <<"Google"," ","Drive","/","Paperpile","/","All"," ","Papers">>

SonyRel == <<"Box"," ","Sync","/","Paperpile">>

PAPERPILE == HomeDir \o PaperpileRel

SONY_BOX == HomeDir \o SonyRel

forbidden_chars == <<"\"","<",">"," ",",",";",":","|","*","?">>

startswith(s, pre) ==
    /\ Len(pre) <= Len(s)
    /\ SubSeq(s, 1, Len(pre)) = pre

endswith(s, suf) ==
    /\ Len(suf) <= Len(s)
    /\ SubSeq(s, Len(s) - Len(suf) + 1, Len(s)) = suf

(* str.replace(char, '_', 1): only the first occurrence is replaced *)
replace_first(s, char) ==
    [i \in DOMAIN s |->
        LET c == s[i]
        IN  IF c = char /\ \A j \in 1..(i - 1) : s[j] # char THEN "_" ELSE c]

(* str.replace(char, '_') for a one-character pattern *)
replace(s, char) ==
    [i \in DOMAIN s |-> LET c == s[i] IN IF c = char THEN "_" ELSE c]

RECURSIVE sanitise(_, _)
sanitise(s, k) ==
    IF k > Len(forbidden_chars) THEN s
    ELSE sanitise(replace(s, forbidden_chars[k]), k + 1)

to_sony_filename(fn) == sanitise(fn, 1)

(* os.path.basename: what follows the last slash *)
RECURSIVE lastSlash(_, _)
lastSlash(s, i) ==
    IF i = 0 THEN 0
    ELSE IF s[i] = "/" THEN i
    ELSE lastSlash(s, i - 1)

basename(p) == SubSeq(p, lastSlash(p, Len(p)) + 1, Len(p))

(* os.path.join of a directory and a relative name *)
join(a, b) == a \o <<"/">> \o b

(* if path.startswith(home): path = path[len(home):] *)
StripHome(path) ==
    IF startswith(path, HomeDir)
    THEN SubSeq(path, Len(HomeDir) + 1, Len(path))
    ELSE path

----------------------------------------------------------------------------
(* The files of the model                                                  *)

(* a document whose name has a forbidden character, a document with the    *)
(* upper-case extension and a plain name, and a hidden file that is no     *)
(* document                                                                *)
Names == { <<";",".","p","d","f">>,
           <<"b",".","P","D","F">>,
           <<".","h">> }

(* a name that differs from the first of Names in a forbidden character    *)
(* only: to_sony_filename gives both the same result.  No file of this    *)
(* name exists when the model starts; the user may create one.            *)
TwinName == <<":",".","p","d","f">>

(* files of the source tree, relative to home *)
SrcRel == {join(PaperpileRel, n) : n \in Names \cup {TwinName}}

TwinRel == join(PaperpileRel, TwinName)

(* the mirror path new_paperpile_to_box computes for a source file *)
MirrorOf(p) == StripHome(join(SONY_BOX, to_sony_filename(basename(p))))

BoxRel == {MirrorOf(p) : p \in SrcRel}

(* where on_moved looks for the mirror file: the sanitised source path *)
StrayRel == {to_sony_filename(p) : p \in SrcRel}

DirRel == {PaperpileRel, SonyRel}

FsPaths == SrcRel \cup BoxRel \cup StrayRel \cup DirRel

NoFile == [kind |-> "none", data |-> <<"-", 0>>, mtime |-> 0]

Dir == [kind |-> "dir", data |-> <<"-", 0>>, mtime |-> 0]

File(side, t) == [kind |-> "file", data |-> <<side, t>>, mtime |-> t]

IsFile(f, p) == f[p].kind = "file"

Side(p) == IF p \in SrcRel THEN "p" ELSE IF p \in BoxRel THEN "b" ELSE "x"

(* a file of one of the two trees changed (copied over, renamed, removed) *)
TreesChanged(f, g) == \E p \in SrcRel \cup BoxRel : f[p] # g[p]

----------------------------------------------------------------------------
(* shutil.copy2, os.stat, os.rename                                        *)

(* io = FALSE is a failure of the operating system (permissions, disk      *)
(* full) that leaves the destination as it was.                            *)
copy2(f, src, dst, io) ==
    IF f[src].kind = "none" THEN [fs |-> f, fault |-> "FileNotFoundError"]
    ELSE IF f[src].kind = "dir" THEN [fs |-> f, fault |-> "IsADirectoryError"]
    ELSE IF src = dst THEN [fs |-> f, fault |-> "SameFileError"]
    ELSE IF ~io THEN [fs |-> f, fault |-> "OSError"]
    ELSE [fs |-> [f EXCEPT ![dst] = f[src]], fault |-> "none"]

(* os.stat(p).st_mtime; -1 stands for FileNotFoundError *)
st_mtime(f, p) == IF f[p].kind = "none" THEN -1 ELSE f[p].mtime

rename(f, old, new) ==
    IF f[old].kind = "none" THEN [fs |-> f, fault |-> "FileNotFoundError"]
    ELSE IF old = new THEN [fs |-> f, fault |-> "none"]
    ELSE [fs |-> [f EXCEPT ![new] = f[old], ![old] = NoFile], fault |-> "none"]

----------------------------------------------------------------------------
(* The index: TinyDB documents {'paperpile', 'box', 'modtime'}             *)

Doc(pp, bx, t) == [paperpile |-> pp, box |-> bx, modtime |-> t]

NoDoc == Doc(<<>>, <<>>, -1)

(* What one call of a handler or loop body did; the value of `last`.       *)
Blank ==
    [op |-> "none", dry_run |-> TRUE, path |-> <<>>, dest |-> <<>>,
     fault |-> "none", action |-> "-", smod |-> -1, pmod |-> -1,
     modtime |-> -1, before |-> NoDoc, elem |-> NoDoc, copies |-> <<>>,
     renames |-> <<>>,
     inserted |-> 0, treesChanged |-> FALSE, dbChanged |-> FALSE,
     tracked |-> FALSE, wasSynced |-> FALSE, second |-> FALSE,
     type |-> "-"]

Idle ==
    [cmd |-> "none", dry_run |-> TRUE, visited |-> {}, elems |-> <<>>,
     i |-> 0, alive |-> FALSE]

----------------------------------------------------------------------------
(* rscandir: the non-hidden files below the directory, at any depth        *)

rscandir(f, directory) ==
    {p \in SrcRel : /\ startswith(p, StripHome(directory))
                    /\ IsFile(f, p)
                    /\ ~ startswith(basename(p), <<".">>)}

(* new_paperpile_to_box has no parameter, local or global named `entry`:   *)
(* evaluating entry.stat() on line 94 raises NameError before db.insert is *)
(* called.                                                                 *)
EntryInScope == FALSE

(* new_paperpile_to_box(path_to_file_in_paperpile, db, dry_run=...)        *)
new_paperpile_to_box(path_to_file_in_paperpile, f, d, dry_run, io) ==
    LET original_path == StripHome(path_to_file_in_paperpile)
        original_name == basename(path_to_file_in_paperpile)
        new_path == StripHome(join(SONY_BOX, to_sony_filename(original_name)))
        c == copy2(f, original_path, new_path, io)
    IN  IF dry_run
        THEN [fs |-> f, db |-> d, fault |-> "none", copies |-> <<>>,
              inserted |-> 0]
        ELSE IF c.fault # "none"
        THEN [fs |-> f, db |-> d, fault |-> c.fault, copies |-> <<>>,
              inserted |-> 0]
        ELSE IF ~ EntryInScope
        THEN [fs |-> c.fs, db |-> d, fault |-> "NameError",
              copies |-> <<[from |-> original_path, to |-> new_path]>>,
              inserted |-> 0]
        ELSE [fs |-> c.fs,
              db |-> Append(d, Doc(original_path, new_path,
                                   st_mtime(c.fs, original_path))),
              fault |-> "none",
              copies |-> <<[from |-> original_path, to |-> new_path]>>,
              inserted |-> 1]

(* Variants of `newer` with a plausible slip: the elif taken first, and a  *)
(* threshold that is not strict.                                           *)
newer_paperpile_first(smod, pmod, modtime) ==
    IF pmod > modtime + 10 THEN "paperpile"
    ELSE IF smod > modtime + 10 THEN "sony"
    ELSE "none"

newer_not_strict(smod, pmod, modtime) ==
    IF smod >= modtime + 10 THEN "sony"
    ELSE IF pmod >= modtime + 10 THEN "paperpile"
    ELSE "none"

(* the Sony side copied whatever the modification times *)
newer_untested(smod, pmod, modtime) == "sony"

(* the if / elif of modified_action: which side is copied *)
newer(smod, pmod, modtime) ==
    IF smod > modtime + 10 THEN "sony"
    ELSE IF pmod > modtime + 10 THEN "paperpile"
    ELSE "none"

(* modified_action(elem, sony, paperpile, modtime, dry_run=...)            *)
modified_action(elem, sony, paperpile, modtime, f, dry_run, io) ==
    LET smod == st_mtime(f, sony)
        pmod == st_mtime(f, paperpile)
        side == newer(smod, pmod, modtime)
        s2p  == copy2(f, sony, paperpile, io)
        p2s  == copy2(f, paperpile, sony, io)
    IN  IF smod = -1 \/ pmod = -1
        THEN [fs |-> f, elem |-> elem, fault |-> "FileNotFoundError",
              copies |-> <<>>, action |-> "fault", smod |-> smod,
              pmod |-> pmod]
        ELSE IF side = "sony"
        THEN IF dry_run
             THEN [fs |-> f, elem |-> elem, fault |-> "none",
                   copies |-> <<>>, action |-> "CopySonyToPaperpile",
                   smod |-> smod, pmod |-> pmod]
             \* elem['modtime'] is assigned before the copy is attempted
             ELSE [fs |-> s2p.fs, elem |-> [elem EXCEPT !.modtime = smod],
                   fault |-> s2p.fault,
                   copies |-> IF s2p.fault = "none"
                              THEN <<[from |-> sony, to |-> paperpile]>>
                              ELSE <<>>,
                   action |-> "CopySonyToPaperpile",
                   smod |-> smod, pmod |-> pmod]
        ELSE IF side = "paperpile"
        THEN IF dry_run
             THEN [fs |-> f, elem |-> elem, fault |-> "none",
                   copies |-> <<>>, action |-> "CopyPaperpileToSony",
                   smod |-> smod, pmod |-> pmod]
             ELSE [fs |-> p2s.fs, elem |-> [elem EXCEPT !.modtime = pmod],
                   fault |-> p2s.fault,
                   copies |-> IF p2s.fault = "none"
                              THEN <<[from |-> paperpile, to |-> sony]>>
                              ELSE <<>>,
                   action |-> "CopyPaperpileToSony",
                   smod |-> smod, pmod |-> pmod]
        ELSE [fs |-> f, elem |-> elem, fault |-> "none", copies |-> <<>>,
              action |-> "NoChange", smod |-> smod, pmod |-> pmod]

----------------------------------------------------------------------------
(* TinyDB: search with the per-handle query cache                          *)

CacheKeys == {"box", "paperpile"} \X BoxRel

NoEntry == [present |-> FALSE, docs |-> <<>>]

EmptyCache == [k \in CacheKeys |-> NoEntry]

Matching(d, field, path) ==
    IF field = "box"
    THEN SelectSeq(d, LAMBDA e : e.box = path)
    ELSE SelectSeq(d, LAMBDA e : e.paperpile = path)

(* a query whose condition selects every document *)
search_any(d, c, field, path, hit) == d

(* db.search(cond): the cached documents when the query is in the cache    *)
(* (hit), otherwise the documents read from the file.  The cache is an LRU *)
(* of bounded capacity, so an entry may have been evicted: hit is FALSE.   *)
search(d, c, field, path, hit) ==
    IF hit /\ c[<<field, path>>].present
    THEN c[<<field, path>>].docs
    ELSE Matching(d, field, path)

----------------------------------------------------------------------------
(* The handlers of watch mode, as functions of the event                   *)

pdf == <<".","p","d","f">>

PDF == <<".","P","D","F">>

Event(type, rel, destrel) ==
    [type |-> type, src_path |-> HomeDir \o rel,
     dest_path |-> IF destrel = <<>> THEN <<>> ELSE HomeDir \o destrel,
     watch |-> IF rel \in SrcRel THEN "paperpile" ELSE "box"]

Tracked(d, path) ==
    \E i \in DOMAIN d : d[i].box = path \/ d[i].paperpile = path

(* FileModifiedHandler.on_modified *)
on_modified(event, f, d, c, dry_run, hit, io) ==
    LET path == StripHome(event.src_path)
        bx == search(d, c, "box", path, hit)
        pp == search(d, c, "paperpile", path, hit)
        c1 == [c EXCEPT ![<<"box", path>>] = [present |-> TRUE, docs |-> bx],
                        ![<<"paperpile", path>>] =
                                            [present |-> TRUE, docs |-> pp]]
        result == bx \o pp
        elem == result[1]
        r == modified_action(elem, elem.box, elem.paperpile, elem.modtime,
                             f, dry_run, io)
        \* result[0] is the cached document object: the assignment to
        \* elem['modtime'] is seen by later hits of the same query
        c2 == IF Len(bx) # 0
              THEN [c1 EXCEPT ![<<"box", path>>].docs[1] = r.elem]
              ELSE [c1 EXCEPT ![<<"paperpile", path>>].docs[1] = r.elem]
    IN  IF Len(result) # 0
        THEN [fs |-> r.fs, cache |-> c2, fault |-> r.fault,
              copies |-> r.copies, action |-> r.action, smod |-> r.smod,
              pmod |-> r.pmod, modtime |-> elem.modtime, before |-> elem,
              elem |-> r.elem]
        ELSE [fs |-> f, cache |-> c1, fault |-> "none", copies |-> <<>>,
              action |-> "-", smod |-> -1, pmod |-> -1, modtime |-> -1,
              before |-> NoDoc, elem |-> NoDoc]

(* on_created that passes dry_run=False whatever --do says *)
on_created_commit(event, f, d, dry_run, io) ==
    LET path == StripHome(event.src_path)
    IN  IF endswith(path, pdf) \/ endswith(path, PDF)
        THEN new_paperpile_to_box(event.src_path, f, d, FALSE, io)
        ELSE [fs |-> f, db |-> d, fault |-> "none", copies |-> <<>>,
              inserted |-> 0]

(* NewFileHandler.on_created *)
on_created(event, f, d, dry_run, io) ==
    LET path == StripHome(event.src_path)
    IN  IF endswith(path, pdf) \/ endswith(path, PDF)
        THEN new_paperpile_to_box(event.src_path, f, d, dry_run, io)
        ELSE [fs |-> f, db |-> d, fault |-> "none", copies |-> <<>>,
              inserted |-> 0]

(* MovedFileHandler.on_moved; self.dry_run is not read *)
on_moved(event, f, d) ==
    LET path == event.src_path
        box_old == to_sony_filename(StripHome(path))
        box_new == to_sony_filename(StripHome(event.dest_path))
        r == rename(f, box_old, box_new)
    IN  IF (~ endswith(path, pdf)) \/ endswith(path, PDF)
        THEN [fs |-> f, db |-> d, fault |-> "none", renames |-> <<>>]
        ELSE IF r.fault # "none"
        THEN [fs |-> f, db |-> d, fault |-> r.fault, renames |-> <<>>]
        \* elem is the list db.search returns: elem['box'] = ... raises
        ELSE [fs |-> r.fs, db |-> d, fault |-> "TypeError",
              renames |-> <<[from |-> box_old, to |-> box_new]>>]

----------------------------------------------------------------------------
(* History kept for the properties                                         *)

(* the user has not changed the files of the pair of source path s *)
PairFilesSame(s, f, g) ==
    \A i \in DOMAIN db :
        db[i].paperpile = s =>
            /\ f[db[i].paperpile].mtime = g[db[i].paperpile].mtime
            /\ f[db[i].paperpile].kind = g[db[i].paperpile].kind
            /\ f[db[i].box].mtime = g[db[i].box].mtime
            /\ f[db[i].box].kind = g[db[i].box].kind

SyncedAfter(g, add) == {s \in synced : PairFilesSame(s, fs, g)} \cup add

BootAfter(g, v) == IF \E p \in SrcRel : fs[p] # g[p] THEN 0 ELSE v

OneSided(r, modtime) ==
    (r.smod > modtime + 10) # (r.pmod > modtime + 10)

(* the pairs a commit-mode resolution has just brought into agreement *)
NewlySynced(r, elem, dry_run) ==
    IF /\ ~ dry_run
       /\ r.fault = "none"
       /\ r.copies # <<>>
       /\ OneSided(r, elem.modtime)
    THEN {elem.paperpile}
    ELSE {}

(* the events watchdog emits for the files a handler wrote *)
EventsOfCopies(f, copies) ==
    [k \in DOMAIN copies |->
        Event(IF f[copies[k].to].kind = "none" THEN "created" ELSE "modified",
              copies[k].to, <<>>)]

Watching == proc.cmd = "watch" /\ proc.alive

Emit(evs) == IF Watching THEN queue \o evs ELSE queue

CanEmit == Watching => Len(queue) < MaxQueue

----------------------------------------------------------------------------
(* Initial states.  Up to MaxFiles files exist in the source tree.  Each   *)
(* is either untracked (never copied) or tracked: the index file records   *)
(* it at last-sync time 0 and its mirror file exists, and the two files    *)
(* carry modification times of InitTimes (a mirror file with the source    *)
(* file's modification time is a copy of it).  A file may exist where      *)
(* on_moved looks for mirror files.                                        *)

InitTimes == {0, 11}

Trackable == {p \in SrcRel : ~ startswith(basename(p), <<".">>)}

(* the sequences without repetition of the elements of S *)
RECURSIVE Orders(_)
Orders(S) ==
    IF S = {} THEN {<<>>}
    ELSE UNION {{<<x>> \o o : o \in Orders(S \ {x})} : x \in S}

InitIndex(order) == [i \in DOMAIN order |-> Doc(order[i], MirrorOf(order[i]), 0)]

StrayPdf == {to_sony_filename(p) : p \in {q \in SrcRel : endswith(q, <<".","p","d","f">>)}}

InitFs(present, d, tm, stray) ==
    [p \in FsPaths |->
        IF p \in DirRel THEN Dir
        ELSE IF \E i \in DOMAIN d : d[i].paperpile = p
        THEN LET i == CHOOSE i \in DOMAIN d : d[i].paperpile = p
             IN  File("p", tm[i][1])
        ELSE IF \E i \in DOMAIN d : d[i].box = p
        THEN LET i == CHOOSE i \in DOMAIN d : d[i].box = p
             IN  IF tm[i][1] = tm[i][2] THEN File("p", tm[i][1])
                 ELSE File("b", tm[i][2])
        ELSE IF p \in present THEN File("p", 0)
        ELSE IF p \in stray THEN File("x", 0)
        ELSE NoFile]

Init ==
    /\ \E present \in SUBSET (SrcRel \ {TwinRel}) :
          /\ Cardinality(present) <= MaxFiles
          /\ \E tracked \in SUBSET (present \cap Trackable) :
                \E order \in Orders(tracked) :
                    /\ db = InitIndex(order)
                    /\ \E tm \in [DOMAIN order -> InitTimes \X InitTimes],
                          stray \in SUBSET StrayPdf :
                            fs = InitFs(present, db, tm, stray)
    /\ proc = Idle
    /\ queue = <<>>
    /\ cache = EmptyCache
    /\ last = Blank
    /\ synced = {}
    /\ bootDone = 0
    /\ nenv = 0

----------------------------------------------------------------------------
(* main(): --init, --syncx, --watch, each with or without --do             *)

main_init(dry_run) ==
    /\ proc.cmd = "none"
    /\ proc' = [Idle EXCEPT !.cmd = "init", !.dry_run = dry_run]
    /\ last' = [Blank EXCEPT !.op = "main", !.dry_run = dry_run]
    /\ UNCHANGED <<fs, db, queue, cache, synced, bootDone, nenv>>

main_syncx(dry_run) ==
    /\ proc.cmd = "none"
    /\ proc' = [Idle EXCEPT !.cmd = "syncx", !.dry_run = dry_run,
                            !.elems = db, !.i = 1]
    /\ last' = [Blank EXCEPT !.op = "main", !.dry_run = dry_run]
    /\ UNCHANGED <<fs, db, queue, cache, synced, bootDone, nenv>>

(* watch(): three handlers, each with its own TinyDB handle; the observer  *)
(* thread is started                                                       *)
watch(dry_run) ==
    /\ proc.cmd = "none"
    /\ proc' = [Idle EXCEPT !.cmd = "watch", !.dry_run = dry_run,
                            !.alive = TRUE]
    /\ queue' = <<>>
    /\ cache' = EmptyCache
    /\ last' = [Blank EXCEPT !.op = "main", !.dry_run = dry_run]
    /\ UNCHANGED <<fs, db, synced, bootDone, nenv>>

(* except KeyboardInterrupt: obs.stop() *)
KeyboardInterrupt ==
    /\ proc.cmd = "watch"
    /\ proc' = Idle
    /\ queue' = <<>>
    /\ cache' = EmptyCache
    /\ last' = [Blank EXCEPT !.op = "stop", !.dry_run = proc.dry_run]
    /\ UNCHANGED <<fs, db, synced, bootDone, nenv>>

----------------------------------------------------------------------------
(* init_paperpile_to_dpt: one iteration of `for entry in rscandir(...)`    *)

(* the call with entry.path for its first argument and entry bound on     *)
(* line 94: the entry is copied and inserted, whatever the index holds    *)
init_call_entry(paperpile_path, entry, f, d, dry_run, io) ==
    LET c == copy2(f, entry, MirrorOf(entry), io)
    IN  IF dry_run
        THEN [fs |-> f, db |-> d, fault |-> "none", copies |-> <<>>,
              inserted |-> 0]
        ELSE IF c.fault # "none"
        THEN [fs |-> f, db |-> d, fault |-> c.fault, copies |-> <<>>,
              inserted |-> 0]
        ELSE [fs |-> c.fs,
              db |-> Append(d, Doc(entry, MirrorOf(entry), st_mtime(f, entry))),
              fault |-> "none",
              copies |-> <<[from |-> entry, to |-> MirrorOf(entry)]>>,
              inserted |-> 1]

(* the call of lines 71-72: the directory, not entry.path, is passed *)
init_call(paperpile_path, entry, f, d, dry_run, io) ==
    new_paperpile_to_box(paperpile_path, f, d, dry_run, io)

init_entry(entry, io) ==
    /\ proc.cmd = "init"
    /\ entry \in rscandir(fs, PAPERPILE) \ proc.visited
    /\ LET r == init_call(PAPERPILE, entry, fs, db, proc.dry_run, io)
           ended == IF proc.dry_run THEN bootDone
                    ELSE 1
       IN  /\ fs' = r.fs
           /\ db' = r.db
           /\ proc' = IF r.fault # "none" THEN Idle
                      ELSE [proc EXCEPT !.visited = @ \cup {entry}]
           /\ bootDone' = BootAfter(r.fs, IF r.fault # "none" THEN ended
                                          ELSE bootDone)
           /\ synced' = SyncedAfter(r.fs, {})
           /\ last' = [Blank EXCEPT !.op = "init_entry",
                          !.dry_run = proc.dry_run, !.path = entry,
                          !.fault = r.fault, !.copies = r.copies,
                          !.inserted = r.inserted,
                          !.treesChanged = TreesChanged(fs, r.fs),
                          !.dbChanged = (r.db # db),
                          !.second = (bootDone >= 1)]
    /\ UNCHANGED <<queue, cache, nenv>>

init_return ==
    /\ proc.cmd = "init"
    /\ rscandir(fs, PAPERPILE) \ proc.visited = {}
    /\ proc' = Idle
    /\ bootDone' = IF proc.dry_run THEN bootDone ELSE 1
    /\ last' = [Blank EXCEPT !.op = "init_return", !.dry_run = proc.dry_run,
                             !.second = (bootDone >= 1)]
    /\ UNCHANGED <<fs, db, queue, cache, synced, nenv>>

----------------------------------------------------------------------------
(* sync_existing: one iteration of `for elem in db.all()`                  *)

sync_elem(io) ==
    /\ proc.cmd = "syncx"
    /\ proc.i <= Len(proc.elems)
    /\ LET elem == proc.elems[proc.i]
           r == modified_action(elem, elem.box, elem.paperpile, elem.modtime,
                                fs, proc.dry_run, io)
       IN  /\ fs' = r.fs
           /\ proc' = IF r.fault # "none" THEN Idle
                      ELSE [proc EXCEPT !.i = @ + 1]
           /\ synced' = SyncedAfter(r.fs, NewlySynced(r, elem, proc.dry_run))
           /\ bootDone' = BootAfter(r.fs, bootDone)
           /\ last' = [Blank EXCEPT !.op = "sync_existing",
                          !.dry_run = proc.dry_run, !.path = elem.paperpile,
                          !.fault = r.fault, !.action = r.action,
                          !.smod = r.smod, !.pmod = r.pmod,
                          !.modtime = elem.modtime, !.before = elem,
                          !.elem = r.elem, !.copies = r.copies,
                          !.treesChanged = TreesChanged(fs, r.fs),
                          !.tracked = TRUE,
                          !.wasSynced = (elem.paperpile \in synced)]
    /\ UNCHANGED <<db, queue, cache, nenv>>

sync_return ==
    /\ proc.cmd = "syncx"
    /\ proc.i > Len(proc.elems)
    /\ proc' = Idle
    /\ last' = [Blank EXCEPT !.op = "sync_return", !.dry_run = proc.dry_run]
    /\ UNCHANGED <<fs, db, queue, cache, synced, bootDone, nenv>>

----------------------------------------------------------------------------
(* Watch mode: the observer thread takes the next event from its queue and *)
(* calls the handlers scheduled on the event's watch (obs.schedule): the   *)
(* modified-file handler on SONY_BOX, the new-file and moved-file handlers *)
(* on PAPERPILE.  An exception raised by a handler ends the observer       *)
(* thread; the main thread keeps sleeping.                                 *)

Dispatching == Watching /\ queue # <<>>

dispatch_on_modified(hit, io) ==
    /\ Dispatching
    /\ Head(queue).watch = "box"
    /\ Head(queue).type = "modified"
    /\ LET event == Head(queue)
           path == StripHome(event.src_path)
           r == on_modified(event, fs, db, cache, proc.dry_run, hit, io)
       IN  /\ fs' = r.fs
           /\ cache' = r.cache
           /\ proc' = [proc EXCEPT !.alive = (r.fault = "none")]
           /\ queue' = IF r.fault = "none"
                       THEN Tail(queue) \o EventsOfCopies(fs, r.copies)
                       ELSE Tail(queue)
           /\ synced' = SyncedAfter(r.fs,
                            IF r.action = "-" THEN {}
                            ELSE NewlySynced(r, r.before, proc.dry_run))
           /\ bootDone' = BootAfter(r.fs, bootDone)
           /\ last' = [Blank EXCEPT !.op = "on_modified",
                          !.dry_run = proc.dry_run, !.path = path,
                          !.fault = r.fault, !.action = r.action,
                          !.smod = r.smod, !.pmod = r.pmod,
                          !.modtime = r.modtime, !.before = r.before,
                          !.elem = r.elem, !.copies = r.copies,
                          !.treesChanged = TreesChanged(fs, r.fs),
                          !.tracked = Tracked(db, path),
                          !.wasSynced = (r.elem.paperpile \in synced)]
    /\ UNCHANGED <<db, nenv>>

dispatch_on_created(io) ==
    /\ Dispatching
    /\ Head(queue).watch = "paperpile"
    /\ Head(queue).type = "created"
    /\ LET event == Head(queue)
           path == StripHome(event.src_path)
           r == on_created(event, fs, db, proc.dry_run, io)
       IN  /\ fs' = r.fs
           /\ db' = r.db
           /\ proc' = [proc EXCEPT !.alive = (r.fault = "none")]
           /\ queue' = IF r.fault = "none"
                       THEN Tail(queue) \o EventsOfCopies(fs, r.copies)
                       ELSE Tail(queue)
           /\ synced' = SyncedAfter(r.fs, {})
           /\ bootDone' = BootAfter(r.fs, bootDone)
           /\ last' = [Blank EXCEPT !.op = "on_created",
                          !.dry_run = proc.dry_run, !.path = path,
                          !.fault = r.fault, !.copies = r.copies,
                          !.inserted = r.inserted,
                          !.treesChanged = TreesChanged(fs, r.fs),
                          !.dbChanged = (r.db # db),
                          !.tracked = Tracked(db, path)]
    /\ UNCHANGED <<cache, nenv>>

dispatch_on_moved ==
    /\ Dispatching
    /\ Head(queue).watch = "paperpile"
    /\ Head(queue).type = "moved"
    /\ LET event == Head(queue)
           path == StripHome(event.src_path)
           r == on_moved(event, fs, db)
       IN  /\ fs' = r.fs
           /\ db' = r.db
           /\ proc' = [proc EXCEPT !.alive = (r.fault = "none")]
           /\ queue' = Tail(queue)
           /\ synced' = SyncedAfter(r.fs, {})
           /\ bootDone' = BootAfter(r.fs, bootDone)
           /\ last' = [Blank EXCEPT !.op = "on_moved",
                          !.dry_run = proc.dry_run, !.path = path,
                          !.dest = StripHome(event.dest_path),
                          !.fault = r.fault, !.renames = r.renames,
                          !.treesChanged = TreesChanged(fs, r.fs),
                          !.dbChanged = (r.db # db),
                          !.tracked = Tracked(db, path)]
    /\ UNCHANGED <<cache, nenv>>

(* events for which no scheduled handler overrides the method: the default *)
(* FileSystemEventHandler methods do nothing                               *)
dispatch_default ==
    /\ Dispatching
    /\ \/ Head(queue).watch = "box" /\ Head(queue).type # "modified"
       \/ /\ Head(queue).watch = "paperpile"
          /\ Head(queue).type \notin {"created", "moved"}
    /\ queue' = Tail(queue)
    /\ last' = [Blank EXCEPT !.op = "default", !.dry_run = proc.dry_run,
                             !.path = StripHome(Head(queue).src_path),
                             !.type = Head(queue).type,
                             !.tracked = Tracked(db, StripHome(Head(queue).src_path))]
    /\ UNCHANGED <<fs, db, proc, cache, synced, bootDone, nenv>>

----------------------------------------------------------------------------
(* The user                                                                *)

EnvStep(g, evs) ==
    /\ nenv < MaxEnv
    /\ CanEmit
    /\ nenv' = nenv + 1
    /\ fs' = g
    /\ queue' = Emit(evs)
    /\ synced' = SyncedAfter(g, {})
    /\ bootDone' = BootAfter(g, bootDone)
    /\ last' = [Blank EXCEPT !.op = "env"]
    /\ UNCHANGED <<db, proc, cache>>

(* a new file carries the current time, the latest of the model *)
Newest == CHOOSE t \in Times : \A u \in Times : u <= t

(* the user edits a file of either tree *)
Touch(p, t) ==
    /\ p \in SrcRel \cup BoxRel
    /\ IsFile(fs, p)
    /\ t \in Times
    /\ fs[p].mtime < t
    /\ EnvStep([fs EXCEPT ![p] = File(Side(p), t)],
               <<Event("modified", p, <<>>)>>)

(* A new file appears, in a tree or where on_moved looks for mirror files. *)
(* Watchdog reports the creation and the write that fills the file; of the *)
(* two events the one is kept for which the watch has a handler method:    *)
(* on_created for PAPERPILE, on_modified for SONY_BOX.                     *)
Create(p, t) ==
    /\ p \in SrcRel \cup BoxRel \cup StrayPdf
    /\ t = Newest
    /\ fs[p].kind = "none"
    /\ EnvStep([fs EXCEPT ![p] = File(Side(p), t)],
               IF p \in StrayRel THEN <<>>
               ELSE IF p \in BoxRel THEN <<Event("modified", p, <<>>)>>
               ELSE <<Event("created", p, <<>>)>>)

(* the user renames a file of the source tree *)
Move(p, q) ==
    /\ p \in SrcRel
    /\ q \in SrcRel
    /\ IsFile(fs, p)
    /\ fs[q].kind = "none"
    /\ EnvStep([fs EXCEPT ![q] = fs[p], ![p] = NoFile],
               <<Event("moved", p, q)>>)

(* the user deletes a file of either tree *)
Delete(p) ==
    /\ p \in SrcRel \cup BoxRel
    /\ IsFile(fs, p)
    /\ EnvStep([fs EXCEPT ![p] = NoFile], <<Event("deleted", p, <<>>)>>)

----------------------------------------------------------------------------

Next ==
    \/ \E dry_run \in BOOLEAN : main_init(dry_run)
    \/ \E dry_run \in BOOLEAN : main_syncx(dry_run)
    \/ \E dry_run \in BOOLEAN : watch(dry_run)
    \/ KeyboardInterrupt
    \/ \E entry \in SrcRel, io \in BOOLEAN : init_entry(entry, io)
    \/ init_return
    \/ \E io \in BOOLEAN : sync_elem(io)
    \/ sync_return
    \/ \E hit \in BOOLEAN, io \in BOOLEAN : dispatch_on_modified(hit, io)
    \/ \E io \in BOOLEAN : dispatch_on_created(io)
    \/ dispatch_on_moved
    \/ dispatch_default
    \/ \E p \in FsPaths, t \in Times : Touch(p, t)
    \/ \E p \in FsPaths, t \in Times : Create(p, t)
    \/ \E p \in SrcRel, q \in SrcRel : Move(p, q)
    \/ \E p \in FsPaths : Delete(p)

Spec == Init /\ [][Next]_vars

(* One run mode at a time: the same Init and the same actions, restricted  *)
(* to the commands of one mode and the user's changes that bear on it.     *)

NextSync ==
    \/ \E dry_run \in BOOLEAN : main_syncx(dry_run)
    \/ \E io \in BOOLEAN : sync_elem(io)
    \/ sync_return
    \/ \E p \in FsPaths, t \in Times : Touch(p, t)
    \/ \E p \in FsPaths : Delete(p)

SpecSync == Init /\ [][NextSync]_vars

NextBoot ==
    \/ \E dry_run \in BOOLEAN : main_init(dry_run)
    \/ \E entry \in SrcRel, io \in BOOLEAN : init_entry(entry, io)
    \/ init_return
    \/ \E p \in FsPaths, t \in Times : Touch(p, t)
    \/ \E p \in FsPaths, t \in Times : Create(p, t)
    \/ \E p \in FsPaths : Delete(p)

SpecBoot == Init /\ [][NextBoot]_vars

NextWatch ==
    \/ \E dry_run \in BOOLEAN : watch(dry_run)
    \/ KeyboardInterrupt
    \/ \E hit \in BOOLEAN, io \in BOOLEAN : dispatch_on_modified(hit, io)
    \/ \E io \in BOOLEAN : dispatch_on_created(io)
    \/ dispatch_on_moved
    \/ dispatch_default
    \/ \E p \in FsPaths, t \in Times : Touch(p, t)
    \/ \E p \in FsPaths, t \in Times : Create(p, t)
    \/ \E p \in SrcRel, q \in SrcRel : Move(p, q)
    \/ \E p \in FsPaths : Delete(p)

SpecWatch == Init /\ [][NextWatch]_vars

(* Every run mode, without --do: main passes dry_run = (not args.do).      *)
NextDry ==
    \/ main_init(TRUE)
    \/ main_syncx(TRUE)
    \/ watch(TRUE)
    \/ KeyboardInterrupt
    \/ \E entry \in SrcRel, io \in BOOLEAN : init_entry(entry, io)
    \/ init_return
    \/ \E io \in BOOLEAN : sync_elem(io)
    \/ sync_return
    \/ \E hit \in BOOLEAN, io \in BOOLEAN : dispatch_on_modified(hit, io)
    \/ \E io \in BOOLEAN : dispatch_on_created(io)
    \/ dispatch_on_moved
    \/ dispatch_default
    \/ \E p \in FsPaths, t \in Times : Touch(p, t)
    \/ \E p \in FsPaths, t \in Times : Create(p, t)
    \/ \E p \in SrcRel, q \in SrcRel : Move(p, q)
    \/ \E p \in FsPaths : Delete(p)

SpecDry == Init /\ [][NextDry]_vars

(* The operations that add pairs to the index: bootstrap runs and Created  *)
(* events, with the other events of the files the user creates or deletes. *)
NextIndex ==
    \/ \E dry_run \in BOOLEAN : main_init(dry_run)
    \/ \E entry \in SrcRel, io \in BOOLEAN : init_entry(entry, io)
    \/ init_return
    \/ \E dry_run \in BOOLEAN : watch(dry_run)
    \/ KeyboardInterrupt
    \/ \E hit \in BOOLEAN, io \in BOOLEAN : dispatch_on_modified(hit, io)
    \/ \E io \in BOOLEAN : dispatch_on_created(io)
    \/ dispatch_default
    \/ \E p \in FsPaths, t \in Times : Create(p, t)
    \/ \E p \in FsPaths : Delete(p)

SpecIndex == Init /\ [][NextIndex]_vars

----------------------------------------------------------------------------
(* to_sony_filename alone, applied to a string and then to its own result  *)

(* the forbidden characters, the underscore, a letter and the dot *)
Chars == {forbidden_chars[k] : k \in DOMAIN forbidden_chars} \cup {"_", "a", "."}

(* 'A; B: C?.pdf' *)
ExampleName == <<"A",";"," ","B",":"," ","C","?",".","p","d","f">>

FileNames ==
    UNION {[1..n -> Chars] : n \in 0..MaxStrLen} \cup {ExampleName}

InitTranslate ==
    /\ \E fn \in FileNames : last = [Blank EXCEPT !.op = "fn", !.path = fn]
    /\ fs = [p \in FsPaths |-> IF p \in DirRel THEN Dir ELSE NoFile]
    /\ db = <<>>
    /\ proc = Idle
    /\ queue = <<>>
    /\ cache = EmptyCache
    /\ synced = {}
    /\ bootDone = 0
    /\ nenv = 0

(* sanitised = to_sony_filename(fn); the next call is given sanitised *)
translate ==
    /\ last.op \in {"fn", "to_sony_filename"}
    /\ ~ last.second
    /\ LET fn == IF last.op = "fn" THEN last.path ELSE last.dest
       IN  last' = [Blank EXCEPT !.op = "to_sony_filename", !.path = fn,
                                 !.dest = to_sony_filename(fn),
                                 !.second = (last.op = "to_sony_filename")]
    /\ UNCHANGED <<fs, db, proc, queue, cache, synced, bootDone, nenv>>

SpecTranslate == InitTranslate /\ [][translate]_vars

----------------------------------------------------------------------------
(* Properties.  `last` describes the call that produced the current state. *)

(* modified_action was called, from sync_existing or from on_modified *)
Resolved ==
    /\ last.op \in {"sync_existing", "on_modified"}
    /\ last.action # "-"

BothChanged ==
    /\ last.smod > last.modtime + 10
    /\ last.pmod > last.modtime + 10

OnlyOneChanged ==
    (last.smod > last.modtime + 10) # (last.pmod > last.modtime + 10)

NeitherChanged ==
    /\ last.smod >= 0
    /\ last.pmod >= 0
    /\ last.smod <= last.modtime + 10
    /\ last.pmod <= last.modtime + 10

Sony2Paperpile == [from |-> last.before.box, to |-> last.before.paperpile]

Paperpile2Sony == [from |-> last.before.paperpile, to |-> last.before.box]

C2_NoChange ==
    (Resolved /\ NeitherChanged) =>
        /\ last.action = "NoChange"
        /\ last.fault = "none"
        /\ last.copies = <<>>
        /\ ~ last.treesChanged
        /\ ~ last.dbChanged
        /\ last.elem = last.before

(* C2, reached: a commit-mode resolution of a pair whose mirror mtime is   *)
(* exactly lastSyncTime + 10 and whose source mtime is no later            *)
C2_Witness ==
    /\ Resolved
    /\ NeitherChanged
    /\ ~ last.dry_run
    /\ last.smod = last.modtime + 10

(* C3: in commit mode, when exactly one side's mtime exceeds lastSyncTime  *)
(* + 10, that side's content and mtime are copied to the other side and    *)
(* the pair's lastSyncTime becomes the copied mtime; and a later           *)
(* resolution of the same pair with unchanged mtimes yields NoChange and   *)
(* copies nothing.                                                         *)
C3_CopyThenNoChange ==
    /\ (Resolved /\ ~ last.dry_run /\ OnlyOneChanged /\ last.fault = "none") =>
           /\ last.copies = IF last.smod > last.modtime + 10
                            THEN <<Sony2Paperpile>> ELSE <<Paperpile2Sony>>
           /\ fs[last.before.paperpile] = fs[last.before.box]
           /\ last.elem.modtime = fs[last.before.box].mtime
    /\ (Resolved /\ last.wasSynced) =>
           /\ last.action = "NoChange"
           /\ last.copies = <<>>

(* C4: after every successful copy of the resolver in commit mode, the     *)
(* index file records the pair with lastSyncTime equal to the mtime of the *)
(* side that changed.                                                      *)
C4_Persisted ==
    (Resolved /\ ~ last.dry_run /\ last.copies # <<>>) =>
        \E i \in DOMAIN db :
            /\ db[i].paperpile = last.before.paperpile
            /\ db[i].modtime = IF last.action = "CopySonyToPaperpile"
                               THEN last.smod ELSE last.pmod

BootstrapEnded ==
    /\ last.op \in {"init_entry", "init_return"}
    /\ ~ last.dry_run
    /\ proc.cmd = "none"

(* C6: after a commit-mode bootstrap, every non-hidden file of the source  *)
(* tree has been copied to the mirror path the path translator gives for   *)
(* its name, and the index holds a pair for it.                            *)
C6_BootstrapCopiesEveryFile ==
    BootstrapEnded =>
        \A p \in rscandir(fs, PAPERPILE) :
            /\ IsFile(fs, MirrorOf(p))
            /\ \E i \in DOMAIN db :
                   db[i].paperpile = p /\ db[i].box = MirrorOf(p)

C8_MovedUpdatesPair ==
    (last.op = "on_moved" /\ ~ last.dry_run /\ last.tracked) =>
        /\ last.fault = "none"
        /\ ~ \E i \in DOMAIN db : db[i].paperpile = last.path
        /\ Cardinality({i \in DOMAIN db : db[i].paperpile = last.dest}) = 1
        /\ \A i \in DOMAIN db :
               db[i].paperpile = last.dest => db[i].box = MirrorOf(last.dest)
        /\ fs[MirrorOf(last.path)].kind = "none"
        /\ IsFile(fs, MirrorOf(last.dest))

(* C9: a Moved event whose old path has no pair raises no fault, changes   *)
(* no pair, renames no file of either tree, and the observer goes on       *)
(* handling events.                                                        *)
C9_MovedUntrackedIsSafe ==
    (last.op = "on_moved" /\ ~ last.tracked) =>
        /\ last.fault = "none"
        /\ ~ last.dbChanged
        /\ \A k \in DOMAIN last.renames :
               /\ last.renames[k].from \notin SrcRel \cup BoxRel
               /\ last.renames[k].to \notin SrcRel \cup BoxRel
        /\ proc.alive

(* C10: a Modified event for a path that is neither the source path nor    *)
(* mirror path of a pair is ignored: no fault, no call of modified_action, *)
(* no copy, no change to the index file.                                   *)
C10_ModifiedUntrackedIgnored ==
    (last.op = "on_modified" /\ ~ last.tracked) =>
        /\ last.fault = "none"
        /\ last.action = "-"
        /\ last.copies = <<>>
        /\ ~ last.treesChanged
        /\ ~ last.dbChanged
        /\ proc.alive

(* C10, reached: on_modified for an untracked path while the index holds  *)
(* a pair                                                                  *)
C10_Witness ==
    /\ last.op = "on_modified"
    /\ ~ last.tracked
    /\ db # <<>>

(* C11: in watch mode a Modified event for a tracked file, of the source   *)
(* tree as well as of the mirror tree, is handled by on_modified, which    *)
(* calls modified_action on the file's pair: no such event is taken from   *)
(* the observer's queue by a handler method that does nothing.             *)
C11_ModifiedReachesResolver ==
    /\ (last.op = "default" /\ last.type = "modified") => ~ last.tracked
    /\ (last.op = "on_modified" /\ last.tracked) => last.action # "-"

(* the event handled last was for a path with a document extension *)
DocumentPath == endswith(last.path, pdf) \/ endswith(last.path, PDF)

(* C12: a Created event in commit mode for a source file ending in .pdf or *)
(* .PDF, unless the operating system fails the copy, leaves the file       *)
(* copied at its translated mirror path and a pair for it in the index     *)
(* file; a Created event for any other path copies nothing and adds no     *)
(* pair.                                                                   *)
C12_CreatedCopiesAndRecords ==
    /\ ( /\ last.op = "on_created"
         /\ ~ last.dry_run
         /\ DocumentPath
         /\ last.fault \notin {"OSError", "FileNotFoundError"} ) =>
           /\ last.fault = "none"
           /\ fs[MirrorOf(last.path)] = fs[last.path]
           /\ \E i \in DOMAIN db :
                  /\ db[i].paperpile = last.path
                  /\ db[i].box = MirrorOf(last.path)
    /\ (last.op = "on_created" /\ ~ DocumentPath) =>
           /\ last.copies = <<>>
           /\ last.inserted = 0
           /\ ~ last.treesChanged
           /\ ~ last.dbChanged

(* the run that made the last call goes on: the sync-once loop is still    *)
(* running, the observer thread is still alive                             *)
RunGoesOn ==
    IF last.op = "sync_existing" THEN proc.cmd = "syncx"
    ELSE proc.cmd = "watch" /\ proc.alive

(* C13: when the copy of the resolver fails in commit mode, the pair's     *)
(* lastSyncTime keeps the value it had before the resolution, in memory    *)
(* and in the index file, and the sync-once run or the daemon goes on.     *)
C13_CopyFailureRecoverable ==
    (Resolved /\ ~ last.dry_run /\ last.fault = "OSError") =>
        /\ last.elem.modtime = last.modtime
        /\ ~ last.dbChanged
        /\ RunGoesOn

(* C14: when the copy of a file fails during a commit-mode bootstrap, the  *)
(* scan does not abort: the loop of init_paperpile_to_dpt goes on to the   *)
(* remaining enumerated files, and no pair is recorded for the file whose  *)
(* copy failed.                                                            *)
C14_BootstrapContinues ==
    (last.op = "init_entry" /\ ~ last.dry_run /\ last.fault # "none") =>
        /\ proc.cmd = "init"
        /\ last.inserted = 0
        /\ ~ last.dbChanged

(* the characters C16 lists: double quote, <, >, space, comma, semicolon,  *)
(* colon, pipe, asterisk, question mark                                    *)
Forbidden == {"\"", "<", ">", " ", ",", ";", ":", "|", "*", "?"}

(* C16: to_sony_filename returns, for every string, a string of the same   *)
(* length in which each forbidden character is replaced by one underscore  *)
(* and every other character is kept, so the result has no forbidden       *)
(* character; applied to its own result it returns it unchanged; and       *)
(* 'A; B: C?.pdf' becomes 'A__B__C_.pdf'.                                  *)
C16_TranslatorIdempotent ==
    (last.op = "to_sony_filename") =>
        /\ Len(last.dest) = Len(last.path)
        /\ \A i \in 1..Len(last.path) :
               /\ last.path[i] \in Forbidden => last.dest[i] = "_"
               /\ last.path[i] \notin Forbidden => last.dest[i] = last.path[i]
               /\ last.dest[i] \notin Forbidden
        /\ last.second => last.dest = last.path
        /\ (last.path = ExampleName) =>
               last.dest = <<"A","_","_","B","_","_","C","_",".","p","d","f">>

(* C16, reached: the second call, given the result '_a_' of the first     *)
C16_Witness ==
    /\ last.op = "to_sony_filename"
    /\ last.second
    /\ last.dest = <<"_", "a", "_">>

(* C17: sync-once survives a stale pair: when os.stat of the pair's source *)
(* or mirror file fails, the pair is skipped with the pair, the files and  *)
(* the index file unchanged, and the loop goes on to the remaining pairs;  *)
(* the run does not end early.                                             *)
C17_SyncSurvivesStalePair ==
    (last.op = "sync_existing" /\ (last.smod = -1 \/ last.pmod = -1)) =>
        /\ proc.cmd = "syncx"
        /\ last.elem = last.before
        /\ ~ last.treesChanged
        /\ ~ last.dbChanged

OverwritesOtherMirror ==
    \E k \in DOMAIN last.copies, i \in DOMAIN db :
        /\ last.copies[k].to = db[i].box
        /\ last.copies[k].from # db[i].paperpile
        /\ last.copies[k].from # db[i].box

(* C19: after any sequence of commit-mode bootstrap runs and Created       *)
(* events, no two pairs of different source paths have the same mirror     *)
(* path, and no copy into the mirror tree overwrites the mirror file of    *)
(* another pair.                                                           *)
C19_MirrorsNotShared ==
    /\ \A i, j \in DOMAIN db :
           db[i].paperpile # db[j].paperpile => db[i].box # db[j].box
    /\ (last.op \in {"init_entry", "on_created"} /\ ~ last.dry_run) =>
           ~ OverwritesOtherMirror

(* C20: a call of modified_action, dry-run or commit, either leaves the    *)
(* pair's lastSyncTime as it was or sets it to one of the two mtimes it    *)
(* read, one greater than the previous lastSyncTime + 10; it changes no    *)
(* other field of the pair and adds or removes no pair.                    *)
C20_LastSyncTimeGrows ==
    Resolved =>
        /\ \/ last.elem.modtime = last.modtime
           \/ /\ last.elem.modtime \in {last.smod, last.pmod}
              /\ last.elem.modtime > last.modtime + 10
        /\ last.before.modtime = last.modtime
        /\ last.elem = [last.before EXCEPT !.modtime = last.elem.modtime]
        /\ ~ last.dbChanged

(* C20, reached: a commit-mode call that set lastSyncTime to the source    *)
(* file's mtime                                                            *)
C20_Witness ==
    /\ Resolved
    /\ ~ last.dry_run
    /\ last.elem.modtime = last.pmod
    /\ last.elem.modtime > last.modtime + 10
    /\ last.smod <= last.modtime + 10

====
